---- MODULE Spec2Model ----
(***************************************************************************)
(* A model of gtsam/matlab.h (namespace gtsam::utilities): the key         *)
(* builders, the typed matrix extractors, the seeded perturbations, the    *)
(* backprojection initialiser, the projection-factor builder, the          *)
(* reprojection-error collector and localToWorld.                          *)
(*                                                                         *)
(* Representation.                                                         *)
(*  - A Key is a 64-bit integer.  It is carried as the pair                *)
(*    [chr |-> its top 8 bits, idx |-> its low 56 bits], i.e. the key      *)
(*    chr * 2^56 + idx; keys compare as the integers do (chr first).       *)
(*  - A Values store is the sequence of its entries in iteration order;    *)
(*    an entry is [key, type, value].                                      *)
(*  - Coordinates and noise are integers; a planar heading is a number of  *)
(*    quarter turns in -1..2, so rotations are exact.                      *)
(*  - A string is the sequence of its character codes.                     *)
(*  - A Matrix is the sequence of its rows (extractors) or of its columns  *)
(*    (reprojectionErrors); the pixel matrix Z is the sequence of its rows.*)
(***************************************************************************)
EXTENDS Integers, Sequences, FiniteSets, TLC

VARIABLES values, graph, ret, nperturb

vars == <<values, graph, ret, nperturb>>

\* ------------------------------------------------------------------ bounds
\* Largest number of entries a store is grown to.
MaxEntries == 3
\* Largest number of factors a graph is grown to.
MaxFactors == 3
\* Largest length of an index vector or key list.
MaxLen == 2
\* Largest number of pixel columns and of landmark indices in one call.
MaxCols == 3
\* Largest number of perturbation calls in one behaviour.
MaxPerturb == 1

\* -------------------------------------------------------------------- keys
\* Implicit conversion of an index (a non-negative integral double below
\* 2^56) to a Key: top byte 0, low bits the index.
KeyOf(x) == [chr |-> 0, idx |-> x]

\* gtsam::Symbol(c, j) converted to Key, and gtsam::symbol(c, j).
Symbol(c, j) == [chr |-> c, idx |-> j]

\* Key order: the order of the 64-bit integers.
KeyLess(a, b) == a.chr < b.chr \/ (a.chr = b.chr /\ a.idx < b.idx)

\* A tag's last character (a mutation of FirstChar).
LastChar(s) == s[Len(s)]

\* char c = s[0];
FirstChar(s) == s[1]

RECURSIVE RawKeysLoop(_, _, _)
\* for (i = 0; i < I.size(); i++) set.push_back(I[i]);   (i is 1-based here)
RawKeysLoop(set, I, i) ==
  IF i > Len(I) THEN set
  ELSE RawKeysLoop(Append(set, KeyOf(I[i])), I, i + 1)

RECURSIVE SymbolKeysLoop(_, _, _, _)
\* for (i = 0; i < I.size(); i++) set.push_back(Symbol(c, I[i]));
SymbolKeysLoop(set, c, I, i) ==
  IF i > Len(I) THEN set
  ELSE SymbolKeysLoop(Append(set, Symbol(c, I[i])), c, I, i + 1)

RECURSIVE RawKeySetLoop(_, _, _)
\* for (i = 0; i < I.size(); i++) set.insert(I[i]);
RawKeySetLoop(set, I, i) ==
  IF i > Len(I) THEN set
  ELSE RawKeySetLoop(set \cup {KeyOf(I[i])}, I, i + 1)

RECURSIVE SymbolKeySetLoop(_, _, _, _)
\* for (i = 0; i < I.size(); i++) set.insert(symbol(c, I[i]));
SymbolKeySetLoop(set, c, I, i) ==
  IF i > Len(I) THEN set
  ELSE SymbolKeySetLoop(set \cup {Symbol(c, I[i])}, c, I, i + 1)

createKeyList(I) == RawKeysLoop(<<>>, I, 1)
createKeyListSym(s, I) == SymbolKeysLoop(<<>>, FirstChar(s), I, 1)
createKeyVector(I) == RawKeysLoop(<<>>, I, 1)
createKeyVectorSym(s, I) == SymbolKeysLoop(<<>>, FirstChar(s), I, 1)
createKeySet(I) == RawKeySetLoop({}, I, 1)
createKeySetSym(s, I) == SymbolKeySetLoop({}, FirstChar(s), I, 1)

\* ------------------------------------------------------------------ Values
\* Values is a map sorted by Key: iteration, filter<T>() and keys() run in
\* ascending key order, insert refuses a key that is present, at<T> refuses
\* an absent key and an entry of another type.
ValuesExists(vals, j) == \E n \in 1..Len(vals) : vals[n].key = j

ValuesInsert(vals, j, T, v) ==
  IF ValuesExists(vals, j)
  THEN [err |-> "ValuesKeyAlreadyExists", values |-> vals]
  ELSE [err |-> "none",
        values |-> SelectSeq(vals, LAMBDA e : KeyLess(e.key, j))
                   \o <<[key |-> j, type |-> T, value |-> v]>>
                   \o SelectSeq(vals, LAMBDA e : KeyLess(j, e.key))]

ValuesUpdate(vals, j, T, v) ==
  IF ~ValuesExists(vals, j)
  THEN [err |-> "ValuesKeyDoesNotExist", values |-> vals]
  ELSE [err |-> "none",
        values |-> [n \in 1..Len(vals) |->
                      IF vals[n].key = j
                      THEN [key |-> j, type |-> T, value |-> v]
                      ELSE vals[n]]]

ValuesAt(vals, j, T) ==
  IF ~ValuesExists(vals, j)
  THEN [err |-> "ValuesKeyDoesNotExist"]
  ELSE LET e == vals[CHOOSE n \in 1..Len(vals) : vals[n].key = j]
       IN IF e.type # T
          THEN [err |-> "ValuesIncorrectType"]
          ELSE [err |-> "none", value |-> e.value]

ValuesFilter(vals, T) == SelectSeq(vals, LAMBDA e : e.type = T)

ValuesKeys(vals) == [n \in 1..Len(vals) |-> vals[n].key]

\* ---------------------------------------------------------------- geometry
\* A planar rotation by theta quarter turns applied to (x, y).
Rot2Rotate(theta, x, y) ==
  CASE theta = 0 -> <<x, y>>
    [] theta = 1 -> <<0 - y, x>>
    [] theta = 2 -> <<0 - x, 0 - y>>
    [] OTHER -> <<y, 0 - x>>

\* A heading brought back to -1..2 (atan2's range, in quarter turns).
WrapTheta(t) == ((t + 1) % 4) - 1

Pose2Compose(a, b) ==
  LET r == Rot2Rotate(a.theta, b.x, b.y)
  IN [x |-> a.x + r[1], y |-> a.y + r[2], theta |-> WrapTheta(a.theta + b.theta)]

Pose2TransformFrom(a, p) ==
  LET r == Rot2Rotate(a.theta, p[1], p[2])
  IN <<a.x + r[1], a.y + r[2]>>

\* value.retract(delta) of each perturbable type.
Retract(T, v, d) ==
  CASE T = "Point2" -> <<v[1] + d[1], v[2] + d[2]>>
    [] T = "Point3" -> <<v[1] + d[1], v[2] + d[2], v[3] + d[3]>>
    [] T = "Pose2" ->
         Pose2Compose(v, [x |-> d[1], y |-> d[2], theta |-> WrapTheta(d[3])])

\* The identity element of each perturbable type.
Origin(T) ==
  CASE T = "Point2" -> <<0, 0>>
    [] T = "Point3" -> <<0, 0, 0>>
    [] T = "Pose2" -> [x |-> 0, y |-> 0, theta |-> 0]

\* 3x3 matrix (sequence of rows) times vector, and its transpose times vector.
Mat3Times(R, p) ==
  [i \in 1..3 |-> R[i][1] * p[1] + R[i][2] * p[2] + R[i][3] * p[3]]

Mat3TransposeTimes(R, p) ==
  [i \in 1..3 |-> R[1][i] * p[1] + R[2][i] * p[2] + R[3][i] * p[3]]

Pose3TransformFrom(P, p) ==
  LET r == Mat3Times(P.R, p) IN <<r[1] + P.t[1], r[2] + P.t[2], r[3] + P.t[3]>>

Pose3TransformTo(P, p) ==
  Mat3TransposeTimes(P.R, <<p[1] - P.t[1], p[2] - P.t[2], p[3] - P.t[3]>>)

\* ----------------------------------------------------------------- sampler
\* Sampler: a seeded generator bound to the sigmas of a diagonal noise model.
\* The generator is a small linear congruential one and a draw is -1, 0 or 1
\* times sigma; a zero sigma yields 0 without drawing (sampleDiagonal).
\* calls counts the sample() calls made on the object.
NewSampler(sigmas, seed) ==
  [sigmas |-> sigmas, seed |-> seed, gen |-> seed % 16, calls |-> 0]

NextGen(g) == (5 * g + 3) % 16

Normal(g) == (g % 3) - 1

RECURSIVE SampleDiagonalLoop(_, _, _, _)
SampleDiagonalLoop(gen, sigmas, result, i) ==
  IF i > Len(sigmas) THEN [gen |-> gen, sample |-> result]
  ELSE IF sigmas[i] = 0
       THEN SampleDiagonalLoop(gen, sigmas, Append(result, 0), i + 1)
       ELSE LET g == NextGen(gen)
            IN SampleDiagonalLoop(g, sigmas,
                                  Append(result, sigmas[i] * Normal(g)), i + 1)

\* sampler.sample(): the vector drawn and the sampler after the draw.
Sample(sampler) ==
  LET r == SampleDiagonalLoop(sampler.gen, sampler.sigmas, <<>>, 1)
  IN [sample |-> r.sample,
      sampler |-> [sampler EXCEPT !.gen = r.gen, !.calls = @ + 1]]

\* -------------------------------------------------------------- extractors
\* A matrix cell range that was allocated and not written.
Unwritten == "unwritten"

\* Matrix result(n, cols): n rows, none written yet.
NewMatrix(n, cols) == [cols |-> cols, rows |-> [j \in 1..n |-> Unwritten]]

\* What each extractor writes into a row.
RowOf(T, v) ==
  CASE T = "Point2" -> v
    [] T = "Point3" -> v
    [] T = "Pose2" -> <<v.x, v.y, v.theta>>
    [] T = "Pose3" -> v.R[1] \o v.R[2] \o v.R[3] \o v.t

ColsOf(T) ==
  CASE T = "Point2" -> 2 [] T = "Point3" -> 3 [] T = "Pose2" -> 3 [] T = "Pose3" -> 12

RECURSIVE ExtractLoop(_, _, _, _)
\* BOOST_FOREACH(key_value, points) result.row(j++) = ...;   (j is 1-based)
ExtractLoop(result, T, points, j) ==
  IF j > Len(points) THEN result
  ELSE ExtractLoop([result EXCEPT !.rows[j] = RowOf(T, points[j].value)],
                   T, points, j + 1)

\* The matrix sized by the whole store instead of the filtered view (a
\* mutation of extract).
extractSizedByStore(vals, T) ==
  ExtractLoop(NewMatrix(Len(vals), ColsOf(T)), T, ValuesFilter(vals, T), 1)

\* The common body of the four extractors.
extract(vals, T) ==
  LET points == ValuesFilter(vals, T)
  IN ExtractLoop(NewMatrix(Len(points), ColsOf(T)), T, points, 1)

extractPoint2(vals) == extract(vals, "Point2")
extractPoint3(vals) == extract(vals, "Point3")
extractPose2(vals) == extract(vals, "Pose2")
extractPose3(vals) == extract(vals, "Pose3")

\* ------------------------------------------------------------ perturbation
\* The sample applied at the identity instead of at the stored value (a
\* mutation of PerturbedValue).
PerturbedFromOrigin(T, v, d) == Retract(T, Origin(T), d)

\* key_value.value.retract(sampler.sample())
PerturbedValue(T, v, d) == Retract(T, v, d)

RECURSIVE PerturbLoopReseeded(_, _, _, _, _)
\* The sampler constructed inside the loop (a mutation of PerturbLoop).
PerturbLoopReseeded(vals, sampler, T, keys, k) ==
  IF k > Len(keys) THEN [values |-> vals, sampler |-> sampler, err |-> "none"]
  ELSE LET s == Sample([sampler EXCEPT
                          !.gen = NewSampler(sampler.sigmas, sampler.seed).gen])
           cur == ValuesAt(vals, keys[k], T).value
           u == ValuesUpdate(vals, keys[k], T, PerturbedValue(T, cur, s.sample))
       IN PerturbLoopReseeded(u.values, s.sampler, T, keys, k + 1)

RECURSIVE PerturbLoop(_, _, _, _, _)
\* BOOST_FOREACH(key_value, values.filter<T>())
\*   values.update(key_value.key, key_value.value.retract(sampler.sample()));
PerturbLoop(vals, sampler, T, keys, k) ==
  IF k > Len(keys) THEN [values |-> vals, sampler |-> sampler, err |-> "none"]
  ELSE LET s == Sample(sampler)
           cur == ValuesAt(vals, keys[k], T).value
           u == ValuesUpdate(vals, keys[k], T, PerturbedValue(T, cur, s.sample))
       IN IF u.err # "none"
          THEN [values |-> u.values, sampler |-> s.sampler, err |-> u.err]
          ELSE PerturbLoop(u.values, s.sampler, T, keys, k + 1)

\* The common body of the three perturbations: one sampler per call.
perturb(vals, T, sigmas, seed) ==
  PerturbLoop(vals, NewSampler(sigmas, seed), T,
              ValuesKeys(ValuesFilter(vals, T)), 1)

\* noiseModel::Isotropic::Sigma(2, sigma)
perturbPoint2(vals, sigma, seed) == perturb(vals, "Point2", <<sigma, sigma>>, seed)
\* noiseModel::Diagonal::Sigmas(Vector3(sigmaT, sigmaT, sigmaR))
perturbPose2(vals, sigmaT, sigmaR, seed) ==
  perturb(vals, "Pose2", <<sigmaT, sigmaT, sigmaR>>, seed)
\* noiseModel::Isotropic::Sigma(3, sigma)
perturbPoint3(vals, sigma, seed) ==
  perturb(vals, "Point3", <<sigma, sigma, sigma>>, seed)

\* ------------------------------------------------------------ localToWorld
\* A handler that lets ValuesKeyAlreadyExists through (a mutation of
\* CatchesStdException).
CatchesTypeErrorsOnly(e) == e \in {"ValuesKeyDoesNotExist", "ValuesIncorrectType"}

\* catch (std::exception e): every exception Values throws derives from it.
CatchesStdException(e) ==
  e \in {"ValuesKeyDoesNotExist", "ValuesIncorrectType", "ValuesKeyAlreadyExists"}

\* pose.compose(base) (a mutation of WorldPose).
WorldPoseReversed(base, pose) == Pose2Compose(pose, base)

\* base.compose(pose)
WorldPose(base, pose) == Pose2Compose(base, pose)

\* base.transform_from(point)
WorldPoint(base, point) == Pose2TransformFrom(base, point)

\* Pose2 pose = local.at<Pose2>(key); world.insert(key, base.compose(pose));
TryPose2(world, local, base, key) ==
  LET a == ValuesAt(local, key, "Pose2")
  IN IF a.err # "none" THEN [err |-> a.err, values |-> world]
     ELSE ValuesInsert(world, key, "Pose2", WorldPose(base, a.value))

\* Point2 point = local.at<Point2>(key);
\* world.insert(key, base.transform_from(point));
TryPoint2(world, local, base, key) ==
  LET a == ValuesAt(local, key, "Point2")
  IN IF a.err # "none" THEN [err |-> a.err, values |-> world]
     ELSE ValuesInsert(world, key, "Point2", WorldPoint(base, a.value))

RECURSIVE LocalToWorldLoop(_, _, _, _, _)
\* BOOST_FOREACH(Key key, keys) { try {...} catch (e1) { try {...} catch (e2) {} } }
\* An exception no handler catches ends the call: no store is returned.
LocalToWorldLoop(world, local, base, keys, k) ==
  IF k > Len(keys) THEN [err |-> "none", values |-> world]
  ELSE LET t1 == TryPose2(world, local, base, keys[k])
       IN IF t1.err = "none"
          THEN LocalToWorldLoop(t1.values, local, base, keys, k + 1)
          ELSE IF ~CatchesStdException(t1.err)
          THEN [err |-> t1.err, values |-> <<>>]
          ELSE LET t2 == TryPoint2(world, local, base, keys[k])
               IN IF t2.err = "none"
                  THEN LocalToWorldLoop(t2.values, local, base, keys, k + 1)
                  ELSE IF ~CatchesStdException(t2.err)
                  THEN [err |-> t2.err, values |-> <<>>]
                  ELSE LocalToWorldLoop(world, local, base, keys, k + 1)

\* if (keys.size()==0) keys = FastVector<Key>(local.keys());
localToWorldKeys(local, user_keys) ==
  IF Len(user_keys) = 0 THEN ValuesKeys(local) ELSE user_keys

localToWorld(local, base, user_keys) ==
  LocalToWorldLoop(<<>>, local, base, localToWorldKeys(local, user_keys), 1)

\* ---------------------------------------------------------- pixel matrices
\* Z.rows() and Z.cols() of a pixel matrix given as the sequence of its rows.
ZRows(Z) == Len(Z)
ZCols(Z) == IF Len(Z) = 0 THEN 0 ELSE Len(Z[1])

\* ---------------------------------------------------- insertBackprojections
\* camera.backproject(p, depth): the pixel calibrated (unit focal lengths, no
\* skew), scaled to the depth and moved from the camera frame to the world.
backproject(camera, p, depth) ==
  Pose3TransformFrom(camera.pose,
    <<(p[1] - camera.K.u0) * depth, (p[2] - camera.K.v0) * depth, depth>>)

\* Z.rows() < 2 refused instead of Z.rows() != 2 (a mutation of
\* BackprojectShapeOk).
BackprojectShapeAtLeastTwoRows(J, Z) == ZRows(Z) >= 2 /\ ZCols(Z) = Len(J)

\* if (Z.rows() != 2) throw ...; if (Z.cols() != J.size()) throw ...;
BackprojectShapeOk(J, Z) == ZRows(Z) = 2 /\ ZCols(Z) = Len(J)

\* Point2 p(Z(0, k), Z(1, k));
BackprojectPixel(Z, k) == <<Z[1][k], Z[2][k]>>

RECURSIVE InsertBackprojectionsLoop(_, _, _, _, _, _)
\* for (k = 0; k < Z.cols(); k++) values.insert(J(k), camera.backproject(p, depth));
\* An insert that throws ends the call with the store as the loop left it.
InsertBackprojectionsLoop(vals, camera, J, Z, depth, k) ==
  IF k > ZCols(Z) THEN [err |-> "none", values |-> vals]
  ELSE LET P == backproject(camera, BackprojectPixel(Z, k), depth)
           r == ValuesInsert(vals, KeyOf(J[k]), "Point3", P)
       IN IF r.err # "none" THEN [err |-> r.err, values |-> vals]
          ELSE InsertBackprojectionsLoop(r.values, camera, J, Z, depth, k + 1)

\* The insertions made on a copy that is kept only when all succeed (a
\* mutation of insertBackprojections).
insertBackprojectionsAtomic(vals, camera, J, Z, depth) ==
  IF ~BackprojectShapeOk(J, Z) THEN [err |-> "invalid_argument", values |-> vals]
  ELSE LET r == InsertBackprojectionsLoop(vals, camera, J, Z, depth, 1)
       IN IF r.err # "none" THEN [err |-> r.err, values |-> vals] ELSE r

insertBackprojections(vals, camera, J, Z, depth) ==
  IF ~BackprojectShapeOk(J, Z) THEN [err |-> "invalid_argument", values |-> vals]
  ELSE InsertBackprojectionsLoop(vals, camera, J, Z, depth, 1)

\* -------------------------------------------------- insertProjectionFactors
\* if (Z.rows() != 2) throw ...; if (Z.cols() != J.size()) throw ...;
FactorsShapeOk(J, Z) == ZRows(Z) = 2 /\ ZCols(Z) = Len(J)

\* Point2(Z(1, k), Z(0, k)) (a mutation of MeasuredPixel).
MeasuredPixelSwapped(Z, k) == <<Z[2][k], Z[1][k]>>

\* Point2(Z(0, k), Z(1, k))
MeasuredPixel(Z, k) == <<Z[1][k], Z[2][k]>>

\* make_shared<GenericProjectionFactor<Pose3, Point3> >(
\*     measured, model, i, Key(J(k)), K, body_P_sensor)
ProjectionFactor(measured, model, poseKey, pointKey, K, body_P_sensor) ==
  [kind |-> "GenericProjectionFactor", measured |-> measured, model |-> model,
   key1 |-> poseKey, key2 |-> pointKey, K |-> K, body_P_sensor |-> body_P_sensor]

RECURSIVE InsertProjectionFactorsLoop(_, _, _, _, _, _, _, _)
\* for (k = 0; k < Z.cols(); k++) graph.push_back(...);
InsertProjectionFactorsLoop(g, i, J, Z, model, K, body_P_sensor, k) ==
  IF k > ZCols(Z) THEN g
  ELSE InsertProjectionFactorsLoop(
         Append(g, ProjectionFactor(MeasuredPixel(Z, k), model, i, KeyOf(J[k]),
                                    K, body_P_sensor)),
         i, J, Z, model, K, body_P_sensor, k + 1)

insertProjectionFactors(g, i, J, Z, model, K, body_P_sensor) ==
  IF ~FactorsShapeOk(J, Z) THEN [err |-> "invalid_argument", graph |-> g]
  ELSE [err |-> "none",
        graph |-> InsertProjectionFactorsLoop(g, i, J, Z, model, K, body_P_sensor, 1)]

\* ------------------------------------------------------- reprojectionErrors
\* p->unwhitenedError(values): the factor reads its pose and its point with
\* at<Pose3> and at<Point3> (which throw), and returns the predicted pixel
\* minus the measured one.  The prediction stands in for the camera
\* projection: the point in the camera frame, calibrated, without the
\* perspective division.
unwhitenedError(f, vals) ==
  LET a == ValuesAt(vals, f.key1, "Pose3")
      b == ValuesAt(vals, f.key2, "Point3")
  IN IF a.err # "none" THEN [err |-> a.err]
     ELSE IF b.err # "none" THEN [err |-> b.err]
     ELSE LET q == Pose3TransformTo(a.value, b.value)
          IN [err |-> "none",
              value |-> <<q[1] + f.K.u0 - f.measured[1], q[2] + f.K.v0 - f.measured[2]>>]

\* Every factor counted (a mutation of CountPassMatches).
CountPassMatchesAny(f) == TRUE

\* Pass 1: if (dynamic_pointer_cast<const GenericProjectionFactor<...> >(f)) ++K;
CountPassMatches(f) == f.kind = "GenericProjectionFactor"

\* Pass 2: p = dynamic_pointer_cast<...>(f); if (p) ...
FillPassMatches(f) == f.kind = "GenericProjectionFactor"

RECURSIVE CountLoop(_, _, _)
CountLoop(g, n, K) ==
  IF n > Len(g) THEN K
  ELSE CountLoop(g, n + 1, IF CountPassMatches(g[n]) THEN K + 1 ELSE K)

RECURSIVE FillLoop(_, _, _, _, _)
\* errors.col(k++) = p->unwhitenedError(values);   (k is 1-based here)
\* A write past the last column is recorded in oob and ends the pass.
FillLoop(errors, g, vals, n, k) ==
  IF n > Len(g) THEN [err |-> "none", errors |-> errors, oob |-> FALSE]
  ELSE IF ~FillPassMatches(g[n]) THEN FillLoop(errors, g, vals, n + 1, k)
  ELSE LET e == unwhitenedError(g[n], vals)
       IN IF e.err # "none" THEN [err |-> e.err, errors |-> errors, oob |-> FALSE]
          ELSE IF k > Len(errors.cols)
          THEN [err |-> "none", errors |-> errors, oob |-> TRUE]
          ELSE FillLoop([errors EXCEPT !.cols[k] = e.value], g, vals, n + 1, k + 1)

\* Matrix errors(2, K): K columns, none written yet.
reprojectionErrors(g, vals) ==
  LET K == CountLoop(g, 1, 0)
  IN FillLoop([rows |-> 2, cols |-> [k \in 1..K |-> Unwritten]], g, vals, 1, 1)

\* ------------------------------------------------------------------ inputs
\* Index values and the index vectors built from them.
Indices == {0, 1, 2}

SeqsUpTo(S, n) == UNION {[1..m -> S] : m \in 0..n}

IndexVectors == SeqsUpTo(Indices, MaxLen)

\* Tags: "x", "l", "xl", "lx" as character codes.
Tags == {<<120>>, <<108>>, <<120, 108>>, <<108, 120>>}

\* Keys the stores are built on: 1, 2 and x0.
StoreKeys == {KeyOf(1), KeyOf(2), Symbol(120, 0)}

\* The typed values inserted into stores.
Point2Values == {<<1, 2>>, <<2, 1>>}
Point3Values == {<<1, 2, 3>>, <<3, 1, 2>>}
Pose2Values == {[x |-> 1, y |-> 2, theta |-> 1], [x |-> 2, y |-> 0, theta |-> 0]}
Pose3Values ==
  {[R |-> <<<<0, -1, 0>>, <<1, 0, 0>>, <<0, 0, 1>>>>, t |-> <<1, 2, 3>>],
   [R |-> <<<<1, 0, 0>>, <<0, 1, 0>>, <<0, 0, 1>>>>, t |-> <<0, 1, 0>>]}

TypedValues ==
  {[type |-> "Point2", value |-> v] : v \in Point2Values}
  \cup {[type |-> "Point3", value |-> v] : v \in Point3Values}
  \cup {[type |-> "Pose2", value |-> v] : v \in Pose2Values}
  \cup {[type |-> "Pose3", value |-> v] : v \in Pose3Values}

\* Noise magnitudes and seeds (42 is the default seed).
Sigmas == {0, 1}
Seeds == {42, 7}

\* Base poses and key lists of localToWorld; key 7 is in no store, and
\* key 2 can be in the store without being named.
BasePoses == {[x |-> 1, y |-> 0, theta |-> 1], [x |-> 0, y |-> 2, theta |-> 2]}
KeyLists == SeqsUpTo({KeyOf(1), Symbol(120, 0), KeyOf(7)}, MaxLen)

\* Pixel matrices: column k of a two-row matrix is the pixel (2k - 1, 2k).
PixelMatrix(r, c) == [i \in 1..r |-> [k \in 1..c |-> 2 * k + i - 2]]

\* The calibration, the camera and the depth of the backprojections.
Calibration == [fx |-> 1, fy |-> 1, s |-> 0, u0 |-> 1, v0 |-> 1]
CameraPose == [R |-> <<<<0, -1, 0>>, <<1, 0, 0>>, <<0, 0, 1>>>>, t |-> <<1, 2, 3>>]
Cameras == {[pose |-> CameraPose, K |-> Calibration]}
Depths == {2}

\* Landmark indices, and the pose key x0, of the projection factors.
LandmarkIndices == {1, 2}
LandmarkVectors == SeqsUpTo(LandmarkIndices, MaxCols)
PoseKeys == {Symbol(120, 0)}

\* The (J, Z) pairs of a call: Z fits J (2 rows, one column per index), or
\* has 1 or 3 rows, or has one column more or fewer than J has indices.
ShapeCases ==
  {<<J, PixelMatrix(r, Len(J))>> : J \in LandmarkVectors, r \in {1, 2, 3}}
  \cup {<<J, PixelMatrix(2, Len(J) - 1)>> : J \in LandmarkVectors \ {<<>>}}
  \cup {<<J, PixelMatrix(2, Len(J) + 1)>> :
          J \in {I \in LandmarkVectors : Len(I) < MaxCols}}

\* Pose3(): the default sensor offset.
IdentityPose3 == [R |-> <<<<1, 0, 0>>, <<0, 1, 0>>, <<0, 0, 1>>>>, t |-> <<0, 0, 0>>]

\* The estimates a caller puts in the store before evaluating factors.
Estimates ==
  {[key |-> Symbol(120, 0), type |-> "Pose3", value |-> CameraPose]}
  \cup {[key |-> KeyOf(j), type |-> "Point3", value |-> <<j, 1, 2>>] :
          j \in LandmarkIndices}

\* Factors of other kinds a caller puts in the graph.
OtherFactors == {[kind |-> "BetweenFactor"]}

\* ------------------------------------------------------------------- state
Init ==
  /\ values = <<>>
  /\ graph = <<>>
  /\ ret = [op |-> "none"]
  /\ nperturb = 0

\* ------------------------------------------------------------ key builders
CreateKeyList ==
  \E I \in IndexVectors :
    /\ ret' = [op |-> "createKeyList", form |-> "seq", sym |-> FALSE,
               I |-> I, out |-> createKeyList(I)]
    /\ UNCHANGED <<values, graph, nperturb>>

CreateKeyListSym ==
  \E I \in IndexVectors, s \in Tags :
    /\ ret' = [op |-> "createKeyList", form |-> "seq", sym |-> TRUE,
               s |-> s, I |-> I, out |-> createKeyListSym(s, I)]
    /\ UNCHANGED <<values, graph, nperturb>>

CreateKeyVector ==
  \E I \in IndexVectors :
    /\ ret' = [op |-> "createKeyVector", form |-> "seq", sym |-> FALSE,
               I |-> I, out |-> createKeyVector(I)]
    /\ UNCHANGED <<values, graph, nperturb>>

CreateKeyVectorSym ==
  \E I \in IndexVectors, s \in Tags :
    /\ ret' = [op |-> "createKeyVector", form |-> "seq", sym |-> TRUE,
               s |-> s, I |-> I, out |-> createKeyVectorSym(s, I)]
    /\ UNCHANGED <<values, graph, nperturb>>

CreateKeySet ==
  \E I \in IndexVectors :
    /\ ret' = [op |-> "createKeySet", form |-> "set", sym |-> FALSE,
               I |-> I, out |-> createKeySet(I)]
    /\ UNCHANGED <<values, graph, nperturb>>

CreateKeySetSym ==
  \E I \in IndexVectors, s \in Tags :
    /\ ret' = [op |-> "createKeySet", form |-> "set", sym |-> TRUE,
               s |-> s, I |-> I, out |-> createKeySetSym(s, I)]
    /\ UNCHANGED <<values, graph, nperturb>>

\* ------------------------------------------------------------ store calls
\* values.insert(key, value) by the caller, in any order.
InsertValue ==
  \E j \in StoreKeys, tv \in TypedValues :
    /\ Len(values) < MaxEntries
    /\ LET r == ValuesInsert(values, j, tv.type, tv.value)
       IN /\ values' = r.values
          /\ ret' = [op |-> "insert", err |-> r.err]
    /\ UNCHANGED <<graph, nperturb>>

ExtractPoint2 ==
  /\ ret' = [op |-> "extract", T |-> "Point2", out |-> extractPoint2(values)]
  /\ UNCHANGED <<values, graph, nperturb>>

ExtractPoint3 ==
  /\ ret' = [op |-> "extract", T |-> "Point3", out |-> extractPoint3(values)]
  /\ UNCHANGED <<values, graph, nperturb>>

ExtractPose2 ==
  /\ ret' = [op |-> "extract", T |-> "Pose2", out |-> extractPose2(values)]
  /\ UNCHANGED <<values, graph, nperturb>>

ExtractPose3 ==
  /\ ret' = [op |-> "extract", T |-> "Pose3", out |-> extractPose3(values)]
  /\ UNCHANGED <<values, graph, nperturb>>

\* The state change common to the three perturbations.
Perturbed(T, sigmas, seed, r) ==
  /\ nperturb < MaxPerturb
  /\ nperturb' = nperturb + 1
  /\ values' = r.values
  /\ ret' = [op |-> "perturb", T |-> T, sigmas |-> sigmas, seed |-> seed,
             before |-> values, out |-> r.values, calls |-> r.sampler.calls,
             err |-> r.err]
  /\ UNCHANGED graph

PerturbPoint2 ==
  \E sigma \in Sigmas, seed \in Seeds :
    Perturbed("Point2", <<sigma, sigma>>, seed, perturbPoint2(values, sigma, seed))

PerturbPose2 ==
  \E sigmaT \in Sigmas, sigmaR \in Sigmas, seed \in Seeds :
    Perturbed("Pose2", <<sigmaT, sigmaT, sigmaR>>, seed,
              perturbPose2(values, sigmaT, sigmaR, seed))

PerturbPoint3 ==
  \E sigma \in Sigmas, seed \in Seeds :
    Perturbed("Point3", <<sigma, sigma, sigma>>, seed,
              perturbPoint3(values, sigma, seed))

LocalToWorld ==
  \E base \in BasePoses, user_keys \in KeyLists :
    /\ LET r == localToWorld(values, base, user_keys)
       IN ret' = [op |-> "localToWorld", base |-> base, user_keys |-> user_keys,
                  before |-> values, err |-> r.err, world |-> r.values]
    /\ UNCHANGED <<values, graph, nperturb>>

NextValues ==
  \/ InsertValue
  \/ ExtractPoint2
  \/ ExtractPoint3
  \/ ExtractPose2
  \/ ExtractPose3
  \/ PerturbPoint2
  \/ PerturbPose2
  \/ PerturbPoint3

SpecValues == Init /\ [][NextValues]_vars

NextRetarget ==
  \/ InsertValue
  \/ LocalToWorld

SpecRetarget == Init /\ [][NextRetarget]_vars

\* ------------------------------------------------------------ graph calls
\* values.insert(key, estimate) by the caller.
InsertEstimate ==
  \E e \in Estimates :
    /\ Len(values) < MaxEntries
    /\ LET r == ValuesInsert(values, e.key, e.type, e.value)
       IN /\ values' = r.values
          /\ ret' = [op |-> "insert", err |-> r.err]
    /\ UNCHANGED <<graph, nperturb>>

\* graph.push_back(factor) by the caller, of a factor of another kind.
AddOtherFactor ==
  \E f \in OtherFactors :
    /\ Len(graph) < MaxFactors
    /\ graph' = Append(graph, f)
    /\ ret' = [op |-> "push_back"]
    /\ UNCHANGED <<values, nperturb>>

InsertBackprojections ==
  \E camera \in Cameras, JZ \in ShapeCases, depth \in Depths :
    /\ Len(values) + ZCols(JZ[2]) <= MaxEntries
    /\ LET J == JZ[1]
           Z == JZ[2]
           r == insertBackprojections(values, camera, J, Z, depth)
       IN /\ values' = r.values
          /\ ret' = [op |-> "insertBackprojections", camera |-> camera, J |-> J,
                     Z |-> Z, depth |-> depth, before |-> values, err |-> r.err]
    /\ UNCHANGED <<graph, nperturb>>

InsertProjectionFactors ==
  \E i \in PoseKeys, JZ \in ShapeCases :
    /\ Len(graph) + ZCols(JZ[2]) <= MaxFactors
    /\ LET J == JZ[1]
           Z == JZ[2]
           r == insertProjectionFactors(graph, i, J, Z, "model", Calibration,
                                        IdentityPose3)
       IN /\ graph' = r.graph
          /\ ret' = [op |-> "insertProjectionFactors", i |-> i, J |-> J, Z |-> Z,
                     before |-> graph, err |-> r.err]
    /\ UNCHANGED <<values, nperturb>>

ReprojectionErrors ==
  /\ LET r == reprojectionErrors(graph, values)
     IN ret' = [op |-> "reprojectionErrors", err |-> r.err, errors |-> r.errors,
                oob |-> r.oob]
  /\ UNCHANGED <<values, graph, nperturb>>

NextShape ==
  \/ InsertBackprojections
  \/ InsertProjectionFactors

SpecShape == Init /\ [][NextShape]_vars

NextBackproject ==
  \/ InsertEstimate
  \/ InsertBackprojections

SpecBackproject == Init /\ [][NextBackproject]_vars

NextGraph ==
  \/ InsertEstimate
  \/ AddOtherFactor
  \/ InsertProjectionFactors
  \/ ReprojectionErrors

SpecGraph == Init /\ [][NextGraph]_vars

\* ---------------------------------------------------------- specifications
\* The calls act on the objects they are handed and share nothing else, so
\* each group of calls is explored as a specification of its own: the key
\* builders (SpecKeys), the extractors and perturbations of a store
\* (SpecValues), localToWorld (SpecRetarget), the two shape-checked calls
\* (SpecShape), backprojection into a store that holds estimates
\* (SpecBackproject) and the factor graph calls (SpecGraph).  Spec is all of
\* them together.
NextKeys ==
  \/ CreateKeyList
  \/ CreateKeyListSym
  \/ CreateKeyVector
  \/ CreateKeyVectorSym
  \/ CreateKeySet
  \/ CreateKeySetSym

SpecKeys == Init /\ [][NextKeys]_vars

Next ==
  \/ NextKeys
  \/ NextValues
  \/ NextRetarget
  \/ NextShape
  \/ NextBackproject
  \/ NextGraph

Spec == Init /\ [][Next]_vars

\* ------------------------------------------------------------- claims: keys
IsKeyCall == ret.op \in {"createKeyList", "createKeyVector", "createKeySet"}

\* The key the claim expects for one index of the call recorded in ret.
ExpectedKey(x) ==
  IF ret.sym THEN [chr |-> ret.s[1], idx |-> x] ELSE [chr |-> 0, idx |-> x]

\* C8 (as stated): every form, the set form included, returns exactly as
\* many keys as the index vector has entries, and in the sequence forms the
\* k-th key is built from indices[k] (with the first character of the tag).
C8_OneKeyPerIndex ==
  IsKeyCall =>
    IF ret.form = "seq"
    THEN /\ Len(ret.out) = Len(ret.I)
         /\ \A k \in 1..Len(ret.I) : ret.out[k] = ExpectedKey(ret.I[k])
    ELSE Cardinality(ret.out) = Len(ret.I)

\* C8 (amended): the sequence forms return one key per index, the k-th built
\* from indices[k]; the set form returns the set of those keys, so it has
\* one key per DISTINCT index, never more than the vector has entries.
C8_KeysFromIndices ==
  IsKeyCall =>
    IF ret.form = "seq"
    THEN /\ Len(ret.out) = Len(ret.I)
         /\ \A k \in 1..Len(ret.I) : ret.out[k] = ExpectedKey(ret.I[k])
    ELSE /\ ret.out = {ExpectedKey(ret.I[k]) : k \in 1..Len(ret.I)}
         /\ Cardinality(ret.out) = Cardinality({ret.I[k] : k \in 1..Len(ret.I)})
         /\ Cardinality(ret.out) <= Len(ret.I)

\* A symbolic set call with a two-character tag and a repeated index, and a
\* symbolic sequence call with a two-character tag.
C8_Witness ==
  /\ IsKeyCall
  /\ ret.sym
  /\ Len(ret.s) = 2
  /\ Len(ret.I) = 2
  /\ ret.form = "set"
  /\ ret.I[1] = ret.I[2]
  /\ Cardinality(ret.out) = 1

\* ---------------------------------------------------------- claims: stores
\* The entries of type T of a store, as a set.
EntriesOfType(vals, T) == {e \in {vals[n] : n \in 1..Len(vals)} : e.type = T}

\* The entry of S with the k-th smallest key.
KthByKey(S, k) ==
  CHOOSE e \in S : Cardinality({f \in S : KeyLess(f.key, e.key)}) = k - 1

\* The position of key j among the keys of S, from 1.
RankByKey(S, j) == Cardinality({f \in S : KeyLess(f.key, j)}) + 1

\* The row layouts the extractors promise.
ExpectedRow(T, v) ==
  CASE T = "Point2" -> <<v[1], v[2]>>
    [] T = "Point3" -> <<v[1], v[2], v[3]>>
    [] T = "Pose2" -> <<v.x, v.y, v.theta>>
    [] T = "Pose3" ->
         <<v.R[1][1], v.R[1][2], v.R[1][3], v.R[2][1], v.R[2][2], v.R[2][3],
           v.R[3][1], v.R[3][2], v.R[3][3], v.t[1], v.t[2], v.t[3]>>

\* C1: an extractor returns one row per entry of its type (none for a store
\* without such entries), and row i holds the value of the entry of that type
\* with the i-th smallest key, whatever the insertion order and whatever
\* entries of other types lie between.
C1_ExtractRowsInKeyOrder ==
  ret.op = "extract" =>
    LET S == EntriesOfType(values, ret.T)
    IN /\ Len(ret.out.rows) = Cardinality(S)
       /\ \A i \in 1..Cardinality(S) :
            ret.out.rows[i] = ExpectedRow(ret.T, KthByKey(S, i).value)

\* Two rows extracted from a store whose middle key holds another type, the
\* two rows differing.
C1_Witness ==
  /\ ret.op = "extract"
  /\ Len(values) = 3
  /\ values[1].type = ret.T
  /\ values[2].type # ret.T
  /\ values[3].type = ret.T
  /\ Len(ret.out.rows) = 2
  /\ ret.out.rows[1] # ret.out.rows[2]

RECURSIVE SamplerAfter(_, _)
\* A sampler after n draws.
SamplerAfter(sampler, n) ==
  IF n = 0 THEN sampler ELSE SamplerAfter(Sample(sampler).sampler, n - 1)

\* The k-th vector a fresh sampler of (sigmas, seed) draws.
NthSample(sigmas, seed, k) ==
  Sample(SamplerAfter(NewSampler(sigmas, seed), k - 1)).sample

\* C2: a perturbation is a function of the store's entries, the noise
\* parameters and the seed: it draws exactly one sample per entry of its type
\* from one sampler seeded by the call, and the entry with the k-th smallest
\* key of that type receives the k-th sample; every other entry is kept.  So
\* two calls with equal seed and noise on stores with equal entries return
\* equal stores.
C2_PerturbDeterministic ==
  ret.op = "perturb" =>
    LET S == EntriesOfType(ret.before, ret.T)
    IN /\ ret.err = "none"
       /\ ret.calls = Cardinality(S)
       /\ Len(ret.out) = Len(ret.before)
       /\ \A n \in 1..Len(ret.before) :
            LET b == ret.before[n]
            IN /\ ret.out[n].key = b.key
               /\ ret.out[n].type = b.type
               /\ ret.out[n].value =
                    IF b.type = ret.T
                    THEN Retract(ret.T, b.value,
                                 NthSample(ret.sigmas, ret.seed, RankByKey(S, b.key)))
                    ELSE b.value

\* A perturbation with noise of two entries that received different samples.
C2_Witness ==
  /\ ret.op = "perturb"
  /\ ret.calls = 2
  /\ NthSample(ret.sigmas, ret.seed, 1) # NthSample(ret.sigmas, ret.seed, 2)
  /\ \A n \in 1..Len(ret.before) :
       ret.before[n].type = ret.T => ret.out[n].value # ret.before[n].value

\* C7: with every sigma zero a perturbation leaves every entry of its type
\* (and so the store) as it was, for any seed.
C7_ZeroNoiseIdentity ==
  (ret.op = "perturb" /\ \A i \in 1..Len(ret.sigmas) : ret.sigmas[i] = 0) =>
    /\ ret.err = "none"
    /\ ret.out = ret.before

\* A zero-noise perturbation of a store that holds a rotated pose and another
\* entry of the perturbed type.
C7_Witness ==
  /\ ret.op = "perturb"
  /\ ret.T = "Pose2"
  /\ ret.sigmas = <<0, 0, 0>>
  /\ ret.calls = 2
  /\ \E n \in 1..Len(ret.before) :
       ret.before[n].type = "Pose2" /\ ret.before[n].value.theta # 0

\* The keys localToWorld processes.
ProcessedKeys ==
  LET keys == IF ret.user_keys = <<>> THEN ValuesKeys(ret.before) ELSE ret.user_keys
  IN {keys[k] : k \in 1..Len(keys)}

\* The entry the world store must hold for key j: present |-> FALSE for none.
ExpectedWorld(j) ==
  LET hit == {e \in {ret.before[n] : n \in 1..Len(ret.before)} : e.key = j}
  IN IF hit = {} THEN [present |-> FALSE]
     ELSE LET e == CHOOSE e \in hit : TRUE
          IN IF e.type = "Pose2"
             THEN [present |-> TRUE, type |-> "Pose2",
                   value |-> Pose2Compose(ret.base, e.value)]
             ELSE IF e.type = "Point2"
             THEN [present |-> TRUE, type |-> "Point2",
                   value |-> Pose2TransformFrom(ret.base, e.value)]
             ELSE [present |-> FALSE]

\* What the returned world store holds for key j.
WorldHolds(j) ==
  LET hit == {e \in {ret.world[n] : n \in 1..Len(ret.world)} : e.key = j}
  IN IF hit = {} THEN [present |-> FALSE]
     ELSE LET e == CHOOSE e \in hit : TRUE
          IN [present |-> TRUE, type |-> e.type, value |-> e.value]

\* C6: localToWorld returns a fresh store holding, for every processed key,
\* base.compose(A) where the input holds a Pose2 A, else
\* base.transform_from(B) where it holds a Point2 B, else nothing (another
\* type, or a key the input lacks), with no error; it holds no other key and
\* the input store is as before.
C6_RetargetByPrecedence ==
  ret.op = "localToWorld" =>
    /\ ret.err = "none"
    /\ \A j \in ProcessedKeys : WorldHolds(j) = ExpectedWorld(j)
    /\ \A n \in 1..Len(ret.world) : ret.world[n].key \in ProcessedKeys
    /\ values = ret.before

\* A call on a pose, a point and a 3-D value, all processed, with a rotated
\* base.
C6_Witness ==
  /\ ret.op = "localToWorld"
  /\ ret.base.theta = 1
  /\ Len(ret.before) = 3
  /\ {ret.before[n].type : n \in 1..3} = {"Pose2", "Point2", "Pose3"}
  /\ ret.user_keys = <<>>
  /\ Len(ret.world) = 2

\* C10: localToWorld raises no error for any key list; of a repeated key the
\* first occurrence makes the entry and the later ones are skipped, so the
\* world store has at most one entry per key, the one the pose-then-point
\* precedence computes from the input.
C10_RepeatedKeysSkipped ==
  ret.op = "localToWorld" =>
    /\ ret.err = "none"
    /\ \A m, n \in 1..Len(ret.world) :
         ret.world[m].key = ret.world[n].key => m = n
    /\ \A n \in 1..Len(ret.world) :
         LET e == ret.world[n]
         IN ExpectedWorld(e.key) = [present |-> TRUE, type |-> e.type, value |-> e.value]
    /\ \A k \in 1..Len(ret.user_keys) :
         ExpectedWorld(ret.user_keys[k]).present =>
           \E n \in 1..Len(ret.world) : ret.world[n].key = ret.user_keys[k]

\* A key list that names the same Point2 key twice.
C10_Witness ==
  /\ ret.op = "localToWorld"
  /\ Len(ret.user_keys) = 2
  /\ ret.user_keys[1] = ret.user_keys[2]
  /\ ExpectedWorld(ret.user_keys[1]).present
  /\ ExpectedWorld(ret.user_keys[1]).type = "Point2"
  /\ Len(ret.world) = 1

\* ----------------------------------------------------------- claims: graph
\* A pixel matrix that is not 2 x Len(J).
BadShape(J, Z) == Len(Z) # 2 \/ (IF Len(Z) = 0 THEN 0 ELSE Len(Z[1])) # Len(J)

\* C3: with a pixel matrix that has not exactly 2 rows, or whose column count
\* differs from the number of keys, insertBackprojections and
\* insertProjectionFactors fail with invalid_argument and leave the store,
\* respectively the graph, exactly as it was.
C3_BadShapeRejectedUnchanged ==
  /\ (ret.op = "insertBackprojections" /\ BadShape(ret.J, ret.Z)) =>
       (ret.err = "invalid_argument" /\ values = ret.before)
  /\ (ret.op = "insertProjectionFactors" /\ BadShape(ret.J, ret.Z)) =>
       (ret.err = "invalid_argument" /\ graph = ret.before)

\* A 3 x 2 pixel matrix with two keys refused on a store that already holds
\* an entry.
C3_Witness ==
  /\ ret.op = "insertBackprojections"
  /\ Len(ret.Z) = 3
  /\ Len(ret.J) = 2
  /\ Len(ret.Z[1]) = 2
  /\ Len(ret.before) = 1
  /\ ret.err = "invalid_argument"

\* C4: with a 2 x K pixel matrix and K keys, insertProjectionFactors appends
\* exactly K projection factors behind the factors the graph held, which stay
\* as they were and in their order; the k-th appended factor binds the pose
\* key, the key of J[k] and the pixel of column k.
C4_FactorsAppendedInColumnOrder ==
  (ret.op = "insertProjectionFactors" /\ ~BadShape(ret.J, ret.Z)) =>
    LET n0 == Len(ret.before)
        K == Len(ret.J)
    IN /\ ret.err = "none"
       /\ Len(graph) = n0 + K
       /\ SubSeq(graph, 1, n0) = ret.before
       /\ \A k \in 1..K :
            /\ graph[n0 + k].kind = "GenericProjectionFactor"
            /\ graph[n0 + k].key1 = ret.i
            /\ graph[n0 + k].key2 = [chr |-> 0, idx |-> ret.J[k]]
            /\ graph[n0 + k].measured = <<ret.Z[1][k], ret.Z[2][k]>>

\* Two factors with different landmark keys appended behind a factor of
\* another kind.
C4_Witness ==
  /\ ret.op = "insertProjectionFactors"
  /\ ret.err = "none"
  /\ Len(ret.J) = 2
  /\ ret.J[1] # ret.J[2]
  /\ Len(ret.before) = 1
  /\ ret.before[1].kind = "BetweenFactor"
  /\ Len(graph) = 3

\* The positions of the projection factors in the graph, and the position of
\* the j-th of them.
ProjectionPositions == {n \in 1..Len(graph) : graph[n].kind = "GenericProjectionFactor"}

JthProjection(j) ==
  CHOOSE n \in ProjectionPositions :
    Cardinality({m \in ProjectionPositions : m < n}) = j - 1

\* Every projection factor of the graph finds its pose and its point in the
\* store.
AllEvaluate ==
  \A n \in ProjectionPositions :
    /\ \E m \in 1..Len(values) :
         values[m].key = graph[n].key1 /\ values[m].type = "Pose3"
    /\ \E m \in 1..Len(values) :
         values[m].key = graph[n].key2 /\ values[m].type = "Point3"

\* C5: for any graph whose projection factors evaluate on the store,
\* reprojectionErrors returns 2 rows and as many columns as the graph has
\* projection factors, column j being the unwhitened error of the j-th
\* projection factor in graph order; no column stays unwritten and nothing
\* is written past the last column.
C5_ErrorsPerProjectionFactor ==
  (ret.op = "reprojectionErrors" /\ AllEvaluate) =>
    /\ ret.err = "none"
    /\ ~ret.oob
    /\ ret.errors.rows = 2
    /\ Len(ret.errors.cols) = Cardinality(ProjectionPositions)
    /\ \A j \in 1..Cardinality(ProjectionPositions) :
         /\ ret.errors.cols[j] # Unwritten
         /\ ret.errors.cols[j] = unwhitenedError(graph[JthProjection(j)], values).value

\* A graph with a factor of another kind between two projection factors
\* whose errors differ.
C5_Witness ==
  /\ ret.op = "reprojectionErrors"
  /\ AllEvaluate
  /\ Len(graph) = 3
  /\ graph[1].kind = "GenericProjectionFactor"
  /\ graph[2].kind = "BetweenFactor"
  /\ graph[3].kind = "GenericProjectionFactor"
  /\ Len(ret.errors.cols) = 2
  /\ ret.errors.cols[1] # ret.errors.cols[2]

\* Column k of the recorded insertBackprojections call meets a key that the
\* store held before the call or that an earlier column has.
Collides(k) ==
  \/ \E n \in 1..Len(ret.before) : ret.before[n].key = [chr |-> 0, idx |-> ret.J[k]]
  \/ \E j \in 1..(k - 1) : ret.J[j] = ret.J[k]

CollidingColumns == {k \in 1..Len(ret.J) : Collides(k)}

FirstColliding == CHOOSE k \in CollidingColumns : \A j \in CollidingColumns : k <= j

\* C9: once the shape check has passed, an insertBackprojections call whose
\* column k meets a key already present fails with an error that is not
\* invalid_argument; the points of the columns before k stay in the store and
\* no column after k is processed.
C9_BackprojectionNotAtomic ==
  (/\ ret.op = "insertBackprojections"
   /\ ~BadShape(ret.J, ret.Z)
   /\ CollidingColumns # {}) =>
    /\ ret.err = "ValuesKeyAlreadyExists"
    /\ {values[n] : n \in 1..Len(values)} =
         {ret.before[n] : n \in 1..Len(ret.before)}
         \cup {[key |-> [chr |-> 0, idx |-> ret.J[k]], type |-> "Point3",
                value |-> backproject(ret.camera, <<ret.Z[1][k], ret.Z[2][k]>>,
                                      ret.depth)] : k \in 1..(FirstColliding - 1)}
    /\ Len(values) = Len(ret.before) + FirstColliding - 1

\* A three-column call whose second key repeats the first: the first point
\* stays, the third key is left out.
C9_Witness ==
  /\ ret.op = "insertBackprojections"
  /\ ~BadShape(ret.J, ret.Z)
  /\ Len(ret.J) = 3
  /\ ret.J[2] = ret.J[1]
  /\ ret.J[3] # ret.J[1]
  /\ ret.err = "ValuesKeyAlreadyExists"
  /\ Len(values) = Len(ret.before) + 1
  /\ \A n \in 1..Len(values) : values[n].key # [chr |-> 0, idx |-> ret.J[3]]

====
